---- MODULE Spec2Model ----
(***************************************************************************)
(* SdSpi.h: the SPI back-ends of the SD card driver.                       *)
(*                                                                         *)
(*   SdSpi      ("Register")  drives the AVR SPI registers SPCR/SPSR/SPDR  *)
(*   SdSpiLib   ("Library")   delegates to the platform SPI library        *)
(*   SdSpiSoft  ("Software")  delegates to the bit-banged SoftSPI          *)
(*                                                                         *)
(* Time is counted in CPU cycles.  The SPI peripheral is the record spi:   *)
(* its three registers, the cycles the byte in flight still needs (busy),  *)
(* the byte being shifted in (sin) and whether SPSR has been read with     *)
(* SPIF set (armS), which is what lets the next access of SPDR clear the   *)
(* flag.  A write of SPDR while a byte is shifting is ignored by the       *)
(* hardware; the model counts it in collisions instead of keeping WCOL.    *)
(***************************************************************************)
EXTENDS Integers, Sequences, FiniteSets, TLC

VARIABLES
  backend,    \* which class the object is
  loopback,   \* TRUE when MOSI is wired to MISO
  spi,        \* the SPI peripheral (SPCR, SPSR, SPDR and the shifter)
  pins,       \* PORTB and DDRB
  lib,        \* settings installed in the platform SPI library
  ready,      \* init has returned at least once
  pc,         \* position of the caller / of the running member function
  op,         \* the running member function, or the one that returned last
  len,        \* the n the call was made with
  n, i, b,    \* locals of the multi-byte functions (b is also init's b)
  data,       \* argument of send(uint8_t)
  buf,        \* the caller's buffer, cell k+1 is buf[k]
  ret,        \* value returned by receive
  divisor, r, \* argument and local of init
  started,    \* bytes of the transfers this call started, in order (MOSI)
  sampled,    \* bytes shifted in by those transfers, in order (MISO)
  collisions, \* SPDR writes of this call that hit a transfer in progress
  staleExit,  \* a SPIF wait of this call ended while a byte was shifting
  quiet,      \* the bus was idle with no pending SPIF when the call began
  calls,      \* library calls made by this call
  idx         \* indices of buf this call read or wrote, in order

vars == <<backend, loopback, spi, pins, lib, ready, pc, op, len, n, i, b,
          data, buf, ret, divisor, r, started, sampled, collisions,
          staleExit, quiet, calls, idx>>

(***************************************************************************)
(* Bounds of the model.                                                    *)
(***************************************************************************)
MaxN == 4

(***************************************************************************)
(* Register bits (AVR) and instruction timing.                             *)
(***************************************************************************)
SPE == 6
MSTR == 4
SPIF == 7
SPI2X == 0
\* Cycles of an out / in instruction, of the nop, of the store to buf, of a
\* load from buf, of the four adiw, and of the loop's increment, compare and
\* branch.  With them one turn of the loop of receive(buf, n) lasts 17
\* cycles, and the next snapshot of SPDR comes 16 cycles after the write
\* that started the byte: one byte time at SCK = CPU/2.
OutCycles == 1
NopCycles == 1
InCycles == 1
StoreCycles == 2
LoadCycles == 2
DelayCycles == 8
LoopCycles == 5
BitsPerByte == 8
SizeMax == 65536

Pow2(k) == 2 ^ k
Bit(x, k) == (x \div Pow2(k)) % 2
SetBit(x, k) == IF Bit(x, k) = 1 THEN x ELSE x + Pow2(k)
ClearBit(x, k) == IF Bit(x, k) = 1 THEN x - Pow2(k) ELSE x
U8(x) == x % 256

Backends == {"Register", "Library", "Software"}
DataBytes == {90, 165}         \* 0x5A, 0xA5: what the caller sends
MisoBytes == {60, 195}         \* 0x3C, 0xC3: what the card answers
BufLen == MaxN + 1
FreshBuf == [k \in 1..BufLen |-> 0]

(***************************************************************************)
(* The peripheral.                                                         *)
(***************************************************************************)
\* SCK divisor selected by SPR1:SPR0 of SPCR and SPI2X of SPSR
Divisor(cr, sr) ==
  LET base == CASE cr % 4 = 0 -> 4
                [] cr % 4 = 1 -> 16
                [] cr % 4 = 2 -> 64
                [] OTHER      -> 128
  IN  IF Bit(sr, SPI2X) = 1 THEN base \div 2 ELSE base

ShiftCycles(h) == BitsPerByte * Divisor(h.SPCR, h.SPSR)

\* an access of SPDR clears SPIF when SPSR was read with SPIF set
ClearOnAccess(h) ==
  [h EXCEPT !.SPSR = IF h.armS THEN ClearBit(@, SPIF) ELSE @,
            !.armS = FALSE]

\* SPDR = v with m on MISO: starts a transfer, or collides with the one in
\* flight and is ignored
WriteSPDR(h, m) ==
  LET h1 == ClearOnAccess(h)
  IN  IF h.busy > 0
        THEN h1
        ELSE [h1 EXCEPT !.busy = ShiftCycles(h), !.sin = m]

\* reading SPSR remembers that it saw SPIF
ReadSPSR(h) ==
  [h EXCEPT !.armS = @ \/ Bit(h.SPSR, SPIF) = 1]

TickNoFlag(h, c) ==
  IF h.busy = 0 THEN h
  ELSE IF c >= h.busy
    THEN [h EXCEPT !.busy = 0, !.SPDR = h.sin]
    ELSE [h EXCEPT !.busy = @ - c]
\* c cycles pass: the byte in flight completes when its time is up
Tick(h, c) ==
  IF h.busy = 0 THEN h
  ELSE IF c >= h.busy
    THEN [h EXCEPT !.busy = 0, !.SPDR = h.sin, !.SPSR = SetBit(@, SPIF)]
    ELSE [h EXCEPT !.busy = @ - c]

SPCR == spi.SPCR
SPSR == spi.SPSR
SPDR == spi.SPDR
Shifting == spi.busy > 0
Quiescent(h) == h.busy = 0 /\ (Bit(h.SPSR, SPIF) = 1 => h.armS)

(***************************************************************************)
(* Initial state: the object exists, nothing has been called.  SPCR holds  *)
(* whatever an earlier user of the peripheral left there.                  *)
(***************************************************************************)
Init ==
  /\ backend \in Backends
  /\ loopback \in BOOLEAN
  /\ \E cr \in {0, 255} :
       spi = [SPCR |-> cr, SPSR |-> 0, SPDR |-> 0, busy |-> 0, sin |-> 0,
              armS |-> FALSE]
  /\ pins = [PORTB |-> 0, DDRB |-> 0]
  /\ lib = [begun |-> FALSE, bitOrder |-> "?", dataMode |-> "?", clockDiv |-> 0]
  /\ ready = FALSE
  /\ pc = "idle" /\ op = "none"
  /\ len = 0 /\ n = 0 /\ i = 0 /\ b = 0 /\ data = 0 /\ ret = 0
  /\ buf = FreshBuf
  /\ divisor = 0 /\ r = 0
  /\ started = <<>> /\ sampled = <<>> /\ collisions = 0
  /\ staleExit = FALSE /\ quiet = TRUE
  /\ calls = <<>> /\ idx = <<>>

\* what every call does to the caller's bookkeeping
Enter(name, next) ==
  /\ pc = "idle"
  /\ pc' = next /\ op' = name
  /\ started' = <<>> /\ sampled' = <<>> /\ collisions' = 0
  /\ staleExit' = FALSE /\ quiet' = Quiescent(spi)
  /\ calls' = <<>> /\ idx' = <<>>

Ghosts == <<started, sampled, collisions, staleExit, quiet, calls, idx>>
Wiring == <<backend, loopback>>
Locals == <<len, n, i, b, data, buf, ret, divisor, r>>

\* the arguments of a call; its locals start afresh
Args(l, d8, bf, dv) ==
  /\ len' = l /\ n' = l /\ i' = 0 /\ b' = 0 /\ data' = d8 /\ buf' = bf
  /\ ret' = 0 /\ divisor' = dv /\ r' = 0

(***************************************************************************)
(* begin()                                                                 *)
(***************************************************************************)
\* bits of port B: SS, MOSI and SCK
PB_SS == 2
PB_MOSI == 3
PB_SCK == 5

PinsAfterBeginNoSck(p) ==
  [PORTB |-> SetBit(p.PORTB, PB_SS),
   DDRB |-> SetBit(SetBit(p.DDRB, PB_SS), PB_MOSI)]
\* PORTB |= 1 << 2; DDRB |= 1 << 2; DDRB |= 1 << 3; DDRB |= 1 << 5
PinsAfterBegin(p) ==
  [PORTB |-> SetBit(p.PORTB, PB_SS),
   DDRB |-> SetBit(SetBit(SetBit(p.DDRB, PB_SS), PB_MOSI), PB_SCK)]

\* SdSpi::begin, ATmega328P: SS high, SS / MOSI / SCK outputs
Begin ==
  /\ backend = "Register"
  /\ Enter("begin", "idle")
  /\ Args(0, 0, FreshBuf, 0)
  /\ pins' = PinsAfterBegin(pins)
  /\ UNCHANGED <<Wiring, spi, lib, ready>>

\* SdSpiLib::begin and SdSpiSoft::begin hand over to SPI.begin / m_spi.begin
LibBegin ==
  /\ backend \in {"Library", "Software"}
  /\ Enter("begin", "idle")
  /\ Args(0, 0, FreshBuf, 0)
  /\ lib' = [lib EXCEPT !.begun = TRUE]
  /\ UNCHANGED <<Wiring, spi, pins, ready>>

(***************************************************************************)
(* init(divisor)                                                           *)
(***************************************************************************)
RateStepPlain(x) == x + 1
\* r += r < 5 ? 1 : 2
RateStep(x) == IF x < 5 THEN x + 1 ELSE x + 2

ClockSelectUnshifted(x) == x
\* r >> 1
ClockSelect(x) == x \div 2

DoubleBitInverted(x) == IF x % 2 = 1 THEN Pow2(SPI2X) ELSE 0
\* r & 1 ? 0 : 1 << SPI2X
DoubleBit(x) == IF x % 2 = 1 THEN 0 ELSE Pow2(SPI2X)

LoopGuardNoRateLimit(d, bb, x) == d > bb
LoopGuardInclusive(d, bb, x) == d >= bb /\ x < 7
\* divisor > b && r < 7
LoopGuard(d, bb, x) == d > bb /\ x < 7

\* the divisors a caller passes: any 8-bit value at the first init, and one
\* per SCK rate when init is called again
InitArgs == IF ready THEN {2, 4, 8, 16, 32, 64, 128} ELSE 0..255

\* SdSpi::init entered: b = 2, r = 0
InitCall ==
  /\ backend = "Register"
  /\ Enter("init", "init_loop")
  /\ \E d \in InitArgs :
       /\ divisor' = d
       /\ len' = 0 /\ n' = 0 /\ i' = 0 /\ b' = 2 /\ data' = 0
       /\ buf' = FreshBuf /\ ret' = 0 /\ r' = 0
  /\ UNCHANGED <<Wiring, spi, pins, lib, ready>>

\* one turn of the for loop
InitLoop ==
  /\ pc = "init_loop"
  /\ LoopGuard(divisor, b, r)
  /\ b' = U8(b * 2)
  /\ r' = U8(RateStep(r))
  /\ UNCHANGED <<Wiring, spi, pins, lib, ready, pc, op, len, n, i, data, buf,
                 ret, divisor, Ghosts>>

\* the loop is left: SPCR and SPSR are written
InitWrite ==
  /\ pc = "init_loop"
  /\ ~LoopGuard(divisor, b, r)
  /\ spi' = [spi EXCEPT
       !.SPCR = U8(Pow2(SPE) + Pow2(MSTR) + ClockSelect(r)),
       !.SPSR = DoubleBit(r) + Pow2(SPIF) * Bit(spi.SPSR, SPIF)]
  /\ ready' = TRUE
  /\ pc' = "idle"
  /\ UNCHANGED <<Wiring, pins, lib, op, Locals, Ghosts>>

\* the r the loop of SdSpi::init ends with, from b = bb and r = x
RECURSIVE InitRate(_, _, _)
InitRate(d, bb, x) ==
  IF LoopGuard(d, bb, x) THEN InitRate(d, U8(bb * 2), U8(RateStep(x))) ELSE x

\* the SCK divisor the registers written by SdSpi::init(d) select
RegisterDivisor(d) ==
  LET x == InitRate(d, 2, 0)
  IN  Divisor(U8(Pow2(SPE) + Pow2(MSTR) + ClockSelect(x)), DoubleBit(x))

LadderFrom4(d) ==
  IF d <= 4 THEN 4 ELSE IF d <= 8 THEN 8
  ELSE IF d <= 16 THEN 16 ELSE IF d <= 32 THEN 32 ELSE IF d <= 64 THEN 64
  ELSE 128
LadderStrict(d) ==
  IF d < 2 THEN 2 ELSE IF d < 4 THEN 4 ELSE IF d < 8 THEN 8
  ELSE IF d < 16 THEN 16 ELSE IF d < 32 THEN 32 ELSE IF d < 64 THEN 64
  ELSE 128
\* SdSpiLib::init's if ladder; SPI_CLOCK_DIVk is written k
Ladder(d) ==
  IF d <= 2 THEN 2 ELSE IF d <= 4 THEN 4 ELSE IF d <= 8 THEN 8
  ELSE IF d <= 16 THEN 16 ELSE IF d <= 32 THEN 32 ELSE IF d <= 64 THEN 64
  ELSE 128

\* SdSpiLib::init
LibInit ==
  /\ backend = "Library"
  /\ pc = "idle"
  /\ pc' = "idle" /\ op' = "init"
  /\ started' = <<>> /\ sampled' = <<>> /\ collisions' = 0
  /\ staleExit' = FALSE /\ quiet' = Quiescent(spi) /\ idx' = <<>>
  /\ \E d \in 0..255 :
       /\ Args(0, 0, FreshBuf, d)
       /\ lib' = [lib EXCEPT !.bitOrder = "MSBFIRST", !.dataMode = "SPI_MODE0",
                             !.clockDiv = Ladder(d)]
  /\ calls' = <<"setBitOrder", "setDataMode", "setClockDivider">>
  /\ ready' = TRUE
  /\ UNCHANGED <<Wiring, spi, pins>>

\* SdSpiSoft::init does nothing
SoftInit ==
  /\ backend = "Software"
  /\ Enter("init", "idle")
  /\ \E d \in 0..255 : Args(0, 0, FreshBuf, d)
  /\ ready' = TRUE
  /\ UNCHANGED <<Wiring, spi, pins, lib>>

(***************************************************************************)
(* Pieces shared by the register-level transfer functions.                 *)
(***************************************************************************)
SpifSetWrongBit(h) == Bit(h.SPSR, SPI2X) = 1
\* SPSR & (1 << SPIF)
SpifSet(h) == Bit(h.SPSR, SPIF) = 1

\* what MISO carries while a byte is clocked out: that byte when looped
\* back, else the card's answer to a receive, or an idle-high line during a
\* send
MisoRx == IF loopback THEN {255} ELSE MisoBytes
MisoTx(v) == IF loopback THEN {v} ELSE {255}

\* SPDR = v, followed by c cycles
Store(v, m, c) ==
  /\ spi' = Tick(WriteSPDR(spi, m), c)
  /\ IF spi.busy > 0
       THEN collisions' = collisions + 1 /\ UNCHANGED <<started, sampled>>
       ELSE /\ started' = Append(started, v)
            /\ sampled' = Append(sampled, m)
            /\ UNCHANGED collisions

\* while (!(SPSR & (1 << SPIF))) {} : the loop is left on a read that sees
\* SPIF, and otherwise spins for as long as the byte in flight needs
Wait(here, next) ==
  /\ pc = here
  /\ IF SpifSet(spi)
       THEN /\ spi' = ReadSPSR(spi)
            /\ pc' = next
            /\ staleExit' = (staleExit \/ Shifting)
       ELSE /\ Shifting
            /\ spi' = Tick(spi, spi.busy)
            /\ UNCHANGED <<pc, staleExit>>

\* the caller does something else until the shifter has finished
Idle ==
  /\ pc = "idle"
  /\ Shifting
  /\ spi' = Tick(spi, spi.busy)
  /\ UNCHANGED <<Wiring, pins, lib, ready, pc, op, Locals, Ghosts>>

(***************************************************************************)
(* SdSpi::receive()                                                        *)
(***************************************************************************)
ReceiveCall ==
  /\ backend = "Register" /\ ready
  /\ Enter("receive", "rx_write")
  /\ Args(1, data, FreshBuf, 0)
  /\ UNCHANGED <<Wiring, spi, pins, lib, ready>>

\* SPDR = 0XFF; nop
ReceiveWrite ==
  /\ pc = "rx_write"
  /\ \E m \in MisoRx : Store(255, m, OutCycles + NopCycles)
  /\ pc' = "rx_wait"
  /\ UNCHANGED <<Wiring, pins, lib, ready, op, Locals, staleExit, quiet, calls,
                 idx>>

ReceiveWait ==
  /\ Wait("rx_wait", "rx_ret")
  /\ UNCHANGED <<Wiring, pins, lib, ready, op, Locals, started, sampled,
                 collisions, quiet, calls, idx>>

\* return SPDR
ReceiveReturn ==
  /\ pc = "rx_ret"
  /\ ret' = spi.SPDR
  /\ spi' = Tick(ClearOnAccess(spi), InCycles)
  /\ pc' = "idle"
  /\ UNCHANGED <<Wiring, pins, lib, ready, op, len, n, i, b, data, buf,
                 divisor, r, Ghosts>>

(***************************************************************************)
(* SdSpi::receive(buf, n)                                                  *)
(***************************************************************************)
ReceiveNCall ==
  /\ backend = "Register" /\ ready
  /\ Enter("receiveN", "rn_check")
  /\ \E k \in 0..MaxN : Args(k, 0, FreshBuf, 0)
  /\ UNCHANGED <<Wiring, spi, pins, lib, ready>>

PreDecrementTest(x) == (x - 1) % SizeMax = 0
NoZeroTest(x) == FALSE
\* n-- == 0
PostDecrementTest(x) == x = 0

\* if (n-- == 0) return 0
ReceiveNCheck ==
  /\ pc = "rn_check"
  /\ n' = (n - 1) % SizeMax
  /\ IF PostDecrementTest(n) THEN pc' = "idle" /\ ret' = 0
              ELSE pc' = "rn_first" /\ UNCHANGED ret
  /\ UNCHANGED <<Wiring, spi, pins, lib, ready, op, len, i, b, data, buf,
                 divisor, r, Ghosts>>

\* SPDR = 0XFF
ReceiveNFirst ==
  /\ pc = "rn_first"
  /\ \E m \in MisoRx : Store(255, m, OutCycles)
  /\ pc' = "rn_wait"
  /\ UNCHANGED <<Wiring, pins, lib, ready, op, Locals, staleExit, quiet, calls,
                 idx>>

\* the wait before the loop; the loop starts with i = 0
ReceiveNWait ==
  /\ Wait("rn_wait", "rn_loop")
  /\ i' = IF pc' = "rn_loop" THEN 0 ELSE i
  /\ UNCHANGED <<Wiring, pins, lib, ready, op, len, n, b, data, buf, ret,
                 divisor, r, started, sampled, collisions, quiet, calls, idx>>

\* i < n
ReceiveNTest ==
  /\ pc = "rn_loop"
  /\ pc' = IF i < n THEN "rn_snap" ELSE "rn_last_wait"
  /\ spi' = Tick(spi, LoopCycles)
  /\ UNCHANGED <<Wiring, pins, lib, ready, op, Locals, Ghosts>>

\* uint8_t b = SPDR
ReceiveNSnap ==
  /\ pc = "rn_snap"
  /\ b' = spi.SPDR
  /\ spi' = Tick(ClearOnAccess(spi), InCycles)
  /\ pc' = "rn_kick"
  /\ UNCHANGED <<Wiring, pins, lib, ready, op, len, n, i, data, buf, ret,
                 divisor, r, Ghosts>>

\* SPDR = 0XFF
ReceiveNKick ==
  /\ pc = "rn_kick"
  /\ \E m \in MisoRx : Store(255, m, OutCycles)
  /\ pc' = "rn_store"
  /\ UNCHANGED <<Wiring, pins, lib, ready, op, Locals, staleExit, quiet, calls,
                 idx>>

\* buf[i] = b; the four adiw; i++
ReceiveNStore ==
  /\ pc = "rn_store"
  /\ buf' = [buf EXCEPT ![i + 1] = b]
  /\ idx' = Append(idx, i)
  /\ spi' = Tick(spi, StoreCycles + DelayCycles)
  /\ i' = i + 1
  /\ pc' = "rn_loop"
  /\ UNCHANGED <<Wiring, pins, lib, ready, op, len, n, b, data, ret, divisor,
                 r, started, sampled, collisions, staleExit, quiet, calls>>

\* the wait after the loop
ReceiveNLastWait ==
  /\ Wait("rn_last_wait", "rn_last")
  /\ UNCHANGED <<Wiring, pins, lib, ready, op, Locals, started, sampled,
                 collisions, quiet, calls, idx>>

\* buf[n] = SPDR; return 0
ReceiveNLast ==
  /\ pc = "rn_last"
  /\ buf' = [buf EXCEPT ![n + 1] = spi.SPDR]
  /\ idx' = Append(idx, n)
  /\ spi' = Tick(ClearOnAccess(spi), InCycles)
  /\ ret' = 0
  /\ pc' = "idle"
  /\ UNCHANGED <<Wiring, pins, lib, ready, op, len, n, i, b, data, divisor, r,
                 started, sampled, collisions, staleExit, quiet, calls>>

(***************************************************************************)
(* SdSpi::send(data)                                                       *)
(***************************************************************************)
SendCall ==
  /\ backend = "Register" /\ ready
  /\ Enter("send", "tx_write")
  /\ \E v \in DataBytes : Args(1, v, FreshBuf, 0)
  /\ UNCHANGED <<Wiring, spi, pins, lib, ready>>

\* SPDR = data; nop
SendWrite ==
  /\ pc = "tx_write"
  /\ \E m \in MisoTx(data) : Store(data, m, OutCycles + NopCycles)
  /\ pc' = "tx_wait"
  /\ UNCHANGED <<Wiring, pins, lib, ready, op, Locals, staleExit, quiet, calls,
                 idx>>

SendWait ==
  /\ Wait("tx_wait", "idle")
  /\ UNCHANGED <<Wiring, pins, lib, ready, op, Locals, started, sampled,
                 collisions, quiet, calls, idx>>

(***************************************************************************)
(* SdSpi::send(buf, n)                                                     *)
(***************************************************************************)
\* the buffers a caller may pass: k bytes of data
Buffers(k) ==
  {[j \in 1..BufLen |-> IF j <= k THEN f[j] ELSE 0] : f \in [1..k -> DataBytes]}

SendNCall ==
  /\ backend = "Register" /\ ready
  /\ Enter("sendN", "sn_check")
  /\ \E k \in 0..MaxN : \E bf \in Buffers(k) : Args(k, 0, bf, 0)
  /\ UNCHANGED <<Wiring, spi, pins, lib, ready>>

\* if (n == 0) return
SendNCheck ==
  /\ pc = "sn_check"
  /\ pc' = IF n = 0 THEN "idle" ELSE "sn_first"
  /\ UNCHANGED <<Wiring, spi, pins, lib, ready, op, Locals, Ghosts>>

\* SPDR = buf[0]; if (n > 1)
SendNFirst ==
  /\ pc = "sn_first"
  /\ \E m \in MisoTx(buf[1]) : Store(buf[1], m, OutCycles)
  /\ idx' = Append(idx, 0)
  /\ pc' = IF n > 1 THEN "sn_load" ELSE "sn_last_wait"
  /\ UNCHANGED <<Wiring, pins, lib, ready, op, Locals, staleExit, quiet, calls>>

\* uint8_t b = buf[1]; size_t i = 2
SendNLoad ==
  /\ pc = "sn_load"
  /\ b' = buf[2] /\ i' = 2
  /\ idx' = Append(idx, 1)
  /\ spi' = Tick(spi, LoadCycles)
  /\ pc' = "sn_wait"
  /\ UNCHANGED <<Wiring, pins, lib, ready, op, len, n, data, buf, ret, divisor,
                 r, started, sampled, collisions, staleExit, quiet, calls>>

\* the wait inside the loop
SendNWait ==
  /\ Wait("sn_wait", "sn_write")
  /\ UNCHANGED <<Wiring, pins, lib, ready, op, Locals, started, sampled,
                 collisions, quiet, calls, idx>>

\* SPDR = b; if (i == n) break
SendNWrite ==
  /\ pc = "sn_write"
  /\ \E m \in MisoTx(b) : Store(b, m, OutCycles)
  /\ pc' = IF i = n THEN "sn_last_wait" ELSE "sn_next"
  /\ UNCHANGED <<Wiring, pins, lib, ready, op, Locals, staleExit, quiet, calls,
                 idx>>

\* b = buf[i++]
SendNNext ==
  /\ pc = "sn_next"
  /\ b' = buf[i + 1] /\ i' = i + 1
  /\ idx' = Append(idx, i)
  /\ spi' = Tick(spi, LoadCycles)
  /\ pc' = "sn_wait"
  /\ UNCHANGED <<Wiring, pins, lib, ready, op, len, n, data, buf, ret, divisor,
                 r, started, sampled, collisions, staleExit, quiet, calls>>

\* the wait before returning
SendNLastWait ==
  /\ Wait("sn_last_wait", "idle")
  /\ UNCHANGED <<Wiring, pins, lib, ready, op, Locals, started, sampled,
                 collisions, quiet, calls, idx>>

(***************************************************************************)
(* SdSpiLib and SdSpiSoft: every byte is one blocking transfer of the      *)
(* service underneath, which clocks v out and returns the byte clocked in. *)
(***************************************************************************)
\* SPI.transfer(v) returning m
LibTransfer(v, m) ==
  /\ started' = Append(started, v)
  /\ sampled' = Append(sampled, m)
  /\ calls' = Append(calls, "transfer")

\* m_spi.receive() / m_spi.send(v): eight bits, MSB first, mode 0
SoftTransfer(v, m) ==
  /\ started' = Append(started, v)
  /\ sampled' = Append(sampled, m)
  /\ calls' = Append(calls, "softspi")

Transfer(v, m) ==
  IF backend = "Library" THEN LibTransfer(v, m) ELSE SoftTransfer(v, m)

\* the bookkeeping of a call that Transfer does not touch
EnterLib(name, next) ==
  /\ backend \in {"Library", "Software"} /\ ready
  /\ pc = "idle"
  /\ pc' = next /\ op' = name
  /\ collisions' = 0 /\ staleExit' = FALSE /\ quiet' = Quiescent(spi)
  /\ idx' = <<>>

\* SdSpiLib::receive(), SdSpiSoft::receive()
LibReceive ==
  /\ EnterLib("receive", "idle")
  /\ \E m \in MisoRx :
       /\ started' = <<255>> /\ sampled' = <<m>>
       /\ calls' = <<IF backend = "Library" THEN "transfer" ELSE "softspi">>
       /\ len' = 1 /\ n' = 1 /\ i' = 0 /\ b' = 0 /\ buf' = FreshBuf
       /\ ret' = m /\ divisor' = 0 /\ r' = 0
  /\ UNCHANGED <<Wiring, spi, pins, lib, ready, data>>

\* SdSpiLib::send(b), SdSpiSoft::send(data)
LibSend ==
  /\ EnterLib("send", "idle")
  /\ \E v \in DataBytes : \E m \in MisoTx(v) :
       /\ started' = <<v>> /\ sampled' = <<m>>
       /\ calls' = <<IF backend = "Library" THEN "transfer" ELSE "softspi">>
       /\ Args(1, v, FreshBuf, 0)
  /\ UNCHANGED <<Wiring, spi, pins, lib, ready>>

\* SdSpiLib::receive(buf, n), SdSpiSoft::receive(buf, n) entered: i = 0
LibReceiveNCall ==
  /\ EnterLib("receiveN", "ln_loop")
  /\ started' = <<>> /\ sampled' = <<>> /\ calls' = <<>>
  /\ \E k \in 0..MaxN : Args(k, 0, FreshBuf, 0)
  /\ UNCHANGED <<Wiring, spi, pins, lib, ready>>

\* for (i = 0; i < n; i++) buf[i] = transfer(0XFF); return 0
LibReceiveNLoop ==
  /\ pc = "ln_loop"
  /\ IF i < n
       THEN /\ \E m \in MisoRx :
                 /\ Transfer(255, m)
                 /\ buf' = [buf EXCEPT ![i + 1] = m]
            /\ idx' = Append(idx, i)
            /\ i' = i + 1
            /\ UNCHANGED <<pc, ret>>
       ELSE /\ pc' = "idle" /\ ret' = 0
            /\ UNCHANGED <<started, sampled, calls, buf, idx, i>>
  /\ UNCHANGED <<Wiring, spi, pins, lib, ready, op, len, n, b, data, divisor,
                 r, collisions, staleExit, quiet>>

\* SdSpiLib::send(buf, n), SdSpiSoft::send(buf, n) entered: i = 0
LibSendNCall ==
  /\ EnterLib("sendN", "ls_loop")
  /\ started' = <<>> /\ sampled' = <<>> /\ calls' = <<>>
  /\ \E k \in 0..MaxN : \E bf \in Buffers(k) : Args(k, 0, bf, 0)
  /\ UNCHANGED <<Wiring, spi, pins, lib, ready>>

\* for (i = 0; i < n; i++) transfer(buf[i])
LibSendNLoop ==
  /\ pc = "ls_loop"
  /\ IF i < n
       THEN /\ \E m \in MisoTx(buf[i + 1]) : Transfer(buf[i + 1], m)
            /\ idx' = Append(idx, i)
            /\ i' = i + 1
            /\ UNCHANGED pc
       ELSE /\ pc' = "idle"
            /\ UNCHANGED <<started, sampled, calls, idx, i>>
  /\ UNCHANGED <<Wiring, spi, pins, lib, ready, op, len, n, b, data, buf, ret,
                 divisor, r, collisions, staleExit, quiet>>


(***************************************************************************)
(* useSpiTransactions()                                                    *)
(***************************************************************************)
UseSpiTransactionsAll(bk) == TRUE
\* the constant each class returns
UseSpiTransactions(bk) ==
  CASE bk = "Register" -> TRUE
    [] bk = "Library"  -> TRUE
    [] OTHER           -> FALSE

\* the query returns its constant (1 for true) and touches nothing else
UseSpiTransactionsCall ==
  /\ pc = "idle"
  /\ op' = "useSpiTransactions"
  /\ ret' = IF UseSpiTransactions(backend) THEN 1 ELSE 0
  /\ UNCHANGED <<Wiring, spi, pins, lib, ready, pc, len, n, i, b, data, buf,
                 divisor, r, Ghosts>>

Next ==
  \/ Begin \/ LibBegin \/ UseSpiTransactionsCall
  \/ InitCall \/ InitLoop \/ InitWrite \/ LibInit \/ SoftInit
  \/ Idle
  \/ ReceiveCall \/ ReceiveWrite \/ ReceiveWait \/ ReceiveReturn
  \/ ReceiveNCall \/ ReceiveNCheck \/ ReceiveNFirst \/ ReceiveNWait
  \/ ReceiveNTest \/ ReceiveNSnap \/ ReceiveNKick \/ ReceiveNStore
  \/ ReceiveNLastWait \/ ReceiveNLast
  \/ SendCall \/ SendWrite \/ SendWait
  \/ SendNCall \/ SendNCheck \/ SendNFirst \/ SendNLoad \/ SendNWait
  \/ SendNWrite \/ SendNNext \/ SendNLastWait
  \/ LibReceive \/ LibSend
  \/ LibReceiveNCall \/ LibReceiveNLoop \/ LibSendNCall \/ LibSendNLoop

Spec == Init /\ [][Next]_vars

(***************************************************************************)
(* A caller that alternates send(b) and receive() byte by byte: every      *)
(* receive() follows a send(b).                                            *)
(***************************************************************************)
AltSendCall == op # "send" /\ SendCall
AltReceiveCall == op = "send" /\ ReceiveCall
AltLibSend == op # "send" /\ LibSend
AltLibReceive == op = "send" /\ LibReceive

NextAlt ==
  \/ Begin \/ LibBegin
  \/ InitCall \/ InitLoop \/ InitWrite \/ LibInit \/ SoftInit
  \/ AltSendCall \/ SendWrite \/ SendWait
  \/ AltReceiveCall \/ ReceiveWrite \/ ReceiveWait \/ ReceiveReturn
  \/ AltLibSend \/ AltLibReceive

SpecAlt == Init /\ [][NextAlt]_vars

(***************************************************************************)
(* Fair execution of the register class: a member function that has been   *)
(* entered keeps taking its next step (the CPU executes it, the shifter    *)
(* clocks the byte out).  Nothing obliges the caller to make another call. *)
(* Which steps are taken, and how long they last, does not depend on the   *)
(* bytes on MISO, so MOSI is looped back.                                  *)
(***************************************************************************)
InitFair == Init /\ backend = "Register" /\ loopback

NextRegister ==
  \/ Begin \/ UseSpiTransactionsCall
  \/ InitCall \/ InitLoop \/ InitWrite
  \/ Idle
  \/ ReceiveCall \/ ReceiveWrite \/ ReceiveWait \/ ReceiveReturn
  \/ ReceiveNCall \/ ReceiveNCheck \/ ReceiveNFirst \/ ReceiveNWait
  \/ ReceiveNTest \/ ReceiveNSnap \/ ReceiveNKick \/ ReceiveNStore
  \/ ReceiveNLastWait \/ ReceiveNLast
  \/ SendCall \/ SendWrite \/ SendWait
  \/ SendNCall \/ SendNCheck \/ SendNFirst \/ SendNLoad \/ SendNWait
  \/ SendNWrite \/ SendNNext \/ SendNLastWait

Running == pc # "idle" /\ NextRegister

SpecFair == InitFair /\ [][NextRegister]_vars /\ WF_vars(Running)

(***************************************************************************)
(* Properties.                                                             *)
(***************************************************************************)
Returned(name) == pc = "idle" /\ op = name
TransferOps == {"send", "sendN", "receive", "receiveN"}
Supported == {2, 4, 8, 16, 32, 64, 128}
\* the SCK divisor in force
EffDivisor == IF backend = "Register" THEN Divisor(SPCR, SPSR) ELSE lib.clockDiv
InitDone == Returned("init") /\ backend \in {"Register", "Library"}

\* C1: receive(buf, n) called on an idle bus leaves in buf[0..n-1] the bytes
\* shifted in by n transfers of its own, one per byte, as n calls of
\* receive() would.
PipelinedReceiveEquivalence ==
  (backend = "Register" /\ Returned("receiveN") /\ quiet) =>
     /\ Len(sampled) = len
     /\ \A k \in 1..len : k <= Len(sampled) => buf[k] = sampled[k]

\* C2: send(buf, n) starts exactly n transfers, carrying buf[0..n-1] in
\* order.
PipelinedSendOrder ==
  (backend = "Register" /\ Returned("sendN")) =>
     started = [k \in 1..len |-> buf[k]]

\* C3: when a transfer function returns, it has started one transfer per
\* byte, none is still shifting, and no wait ended on a stale SPIF.
CompletionBeforeReturn ==
  (backend = "Register" /\ pc = "idle" /\ op \in TransferOps /\ quiet) =>
     /\ ~Shifting
     /\ Len(started) = len
     /\ ~staleExit

\* C4: after init(d) the divisor decoded from SPCR and SPSR is 2 for d <= 2,
\* 128 for d > 64, and else the least power of two >= d.
DivisorMapping ==
  (backend = "Register" /\ Returned("init")) =>
     Divisor(SPCR, SPSR) =
       IF divisor <= 2 THEN 2
       ELSE IF divisor > 64 THEN 128
       ELSE CHOOSE p \in Supported :
              p >= divisor /\ \A q \in Supported : q >= divisor => p <= q

DivisorMappingWitness ==
  /\ backend = "Register" /\ Returned("init")
  /\ divisor = 129 /\ Divisor(SPCR, SPSR) = 128

\* C5 as stated: for every 8-bit d the divisor in force after init(d) is
\* >= d, and no smaller supported divisor is.
FastestNotExceeding ==
  InitDone =>
     /\ EffDivisor >= divisor
     /\ \A q \in Supported : q >= divisor => EffDivisor <= q

\* C5 amended: that holds for d <= 128; for d > 128 the divisor in force is
\* 128, the largest there is.
FastestNotExceedingUpTo128 ==
  InitDone =>
     IF divisor <= 128
       THEN /\ EffDivisor >= divisor
            /\ \A q \in Supported : q >= divisor => EffDivisor <= q
       ELSE EffDivisor = 128

FastestWitness ==
  InitDone /\ backend = "Register" /\ divisor = 200 /\ EffDivisor = 128

\* C6 as stated: for d in 1..255 the SCK period P in CPU periods satisfies
\* d <= P < 2d.
PeriodBand ==
  (InitDone /\ divisor \in 1..255) =>
     (divisor <= EffDivisor /\ EffDivisor < 2 * divisor)

\* C6 amended: d <= P < 2d holds for d in 2..128.
PeriodBandFrom2To128 ==
  (InitDone /\ divisor \in 2..128) =>
     (divisor <= EffDivisor /\ EffDivisor < 2 * divisor)

PeriodBandWitness ==
  InitDone /\ backend = "Register" /\ divisor = 65 /\ EffDivisor = 128

\* C7: a multi-byte call with n = 0 returns at once: no transfer, no SPDR
\* write, registers, pins and buf as they were, and receive returns 0.
ZeroLengthNoOp ==
  [][(len = 0 /\ pc \in {"rn_check", "sn_check", "ln_loop", "ls_loop"}) =>
       /\ pc' = "idle"
       /\ spi' = spi /\ pins' = pins /\ lib' = lib /\ buf' = buf
       /\ started' = started /\ collisions' = collisions /\ calls' = calls
       /\ (op = "receiveN" => ret' = 0)]_vars

ZeroLengthWitness ==
  /\ backend = "Register" /\ Returned("receiveN") /\ len = 0
  /\ started = <<>> /\ ret = 0

\* C8: with MOSI wired to MISO every receive() returns 0xFF and every
\* receive(buf, n) fills buf[0..n-1] with 0xFF.
LoopbackDummy ==
  (loopback /\ pc = "idle") =>
     /\ op = "receive" => ret = 255
     /\ op = "receiveN" => \A k \in 1..len : buf[k] = 255

\* C9 as stated: with MOSI wired to MISO and send and receive alternating,
\* receive() returns the byte of the send before it.
AltReceiveReturnsSent ==
  (loopback /\ Returned("receive")) => ret = data

\* C9 amended: it returns 0xFF, the dummy byte of its own transfer.
AltReceiveReturnsDummy ==
  (loopback /\ Returned("receive")) => ret = 255

AltReceiveWitness ==
  /\ loopback /\ backend = "Register" /\ Returned("receive")
  /\ data = 90 /\ ret = 255

\* C10: once init has returned, SPCR has SPE and MSTR set, a clock select
\* within its two bits, and SPIE, DORD, CPOL and CPHA clear; no step of
\* send or receive changes SPCR.
ModeInvariant ==
  /\ [](backend = "Register" /\ ready =>
          /\ Bit(SPCR, SPE) = 1 /\ Bit(SPCR, MSTR) = 1
          /\ Bit(SPCR, 7) = 0 /\ Bit(SPCR, 5) = 0
          /\ Bit(SPCR, 3) = 0 /\ Bit(SPCR, 2) = 0)
  /\ [][op' \in TransferOps => SPCR' = SPCR]_vars

ModeWitness ==
  /\ backend = "Register" /\ Returned("receiveN") /\ len = 3 /\ SPCR = 83

TransactionCapability ==
  /\ [](Returned("useSpiTransactions") =>
          ret = (IF backend \in {"Register", "Library"} THEN 1 ELSE 0))
  /\ [][(op' = "useSpiTransactions" /\ op # "useSpiTransactions") =>
         /\ spi' = spi /\ pins' = pins /\ lib' = lib /\ ready' = ready
         /\ buf' = buf /\ backend' = backend /\ pc' = "idle"]_vars

\* asked of the software class after a multi-byte receive
TransactionWitness ==
  /\ backend = "Software" /\ Returned("useSpiTransactions") /\ ret = 0
  /\ Len(sampled) = 2 /\ buf[2] = 195

\* C13: in receive(buf, n) called on an idle bus, at every rate init can
\* select, each snapshot of SPDR in the loop is taken when the byte started
\* before it has been shifted in, no SPDR write of the loop meets a transfer
\* in progress, and the wait after the loop ends on the completion of the
\* last transfer.
FixedDelayCoversShift ==
  (backend = "Register" /\ op = "receiveN" /\ quiet) =>
     /\ pc = "rn_snap" => ~Shifting
     /\ collisions = 0
     /\ ~staleExit

\* C14: during send(buf, n), whatever was called before, no SPDR write meets
\* a transfer in progress and no wait ends on a stale SPIF.
PipelinedSendNoCollision ==
  (backend = "Register" /\ op = "sendN") =>
     /\ collisions = 0
     /\ ~staleExit
     /\ pc = "sn_write" => ~Shifting

WaitPcs == {"rx_wait", "rn_wait", "rn_last_wait", "tx_wait", "sn_wait",
            "sn_last_wait"}

\* C15: with a shifter that completes every byte and raises SPIF, every
\* send and receive of the register class, single or multi-byte, returns;
\* a SPIF wait spins at most once, for no longer than the byte in flight
\* needs (one byte time when the call began on an idle bus), and then sees
\* SPIF; a wait is left only on a read that sees SPIF, so there is no
\* timeout.
BusyWaitTermination ==
  /\ (backend = "Register" /\ pc # "idle" /\ op \in TransferOps)
        ~> (pc = "idle")
  /\ [][(pc \in WaitPcs /\ pc' = pc /\ spi' # spi) =>
         /\ Bit(spi'.SPSR, SPIF) = 1 /\ spi'.busy = 0
         /\ quiet => spi.busy <= ShiftCycles(spi)]_vars
  /\ [][(pc \in WaitPcs /\ pc' # pc) => Bit(spi.SPSR, SPIF) = 1]_vars

\* a four-byte send at SCK = CPU/128 has returned
BusyWaitWitness ==
  /\ backend = "Register" /\ Returned("sendN") /\ len = MaxN
  /\ Len(started) = MaxN /\ Divisor(SPCR, SPSR) = 128 /\ ~Shifting

\* the divisor each r is said to select
RateTableAsStated == [x \in {0, 1, 2, 3, 4, 6, 7} |->
  CASE x = 0 -> 2 [] x = 1 -> 4 [] x = 2 -> 8 [] x = 3 -> 16 [] x = 4 -> 32
    [] x = 6 -> 64 [] OTHER -> 128]
RateTable == [x \in {0, 1, 2, 3, 4, 5, 7} |->
  CASE x = 0 -> 2 [] x = 1 -> 4 [] x = 2 -> 8 [] x = 3 -> 16 [] x = 4 -> 32
    [] x = 5 -> 64 [] OTHER -> 128]

\* what init leaves in the registers for the r it ended with
RateSplit ==
  /\ SPCR % 4 = r \div 2
  /\ (Bit(SPSR, SPI2X) = 1) <=> (r % 2 = 0)

\* C16 as stated: the r init ends with is one of 0, 1, 2, 3, 4, 6, 7; 0, 1,
\* 2, 3, 4, 6 select the divisors 2, 4, 8, 16, 32, 64 and 7 selects 128; the
\* top two bits of r are the clock select and SPI2X is set exactly when r is
\* even.
RateEncodingAsStated ==
  (backend = "Register" /\ Returned("init")) =>
     /\ r \in DOMAIN RateTableAsStated
     /\ Divisor(SPCR, SPSR) = RateTableAsStated[r]
     /\ RateSplit

\* C16 amended: the r init ends with is one of 0, 1, 2, 3, 4, 5, 7; 0, 1,
\* 2, 3, 4, 5 select the divisors 2, 4, 8, 16, 32, 64 and 7 selects 128; the
\* split of r into clock select and SPI2X is as stated.
RateEncodingReached ==
  (backend = "Register" /\ Returned("init")) =>
     /\ r \in DOMAIN RateTable
     /\ Divisor(SPCR, SPSR) = RateTable[r]
     /\ RateSplit

\* init(64) ends with r = 5, which selects CPU/64
RateEncodingWitness ==
  /\ backend = "Register" /\ Returned("init") /\ divisor = 64
  /\ r = 5 /\ SPCR = 82 /\ Bit(SPSR, SPI2X) = 0

LibInitCalls == <<"setBitOrder", "setDataMode", "setClockDivider">>

\* C17 as stated: for every d in 0..255 the library init(d) sets MSB first
\* and mode 0, then installs one clock divider, the smallest of 2, 4, ...,
\* 128 that is >= d, which is the divisor the register init(d) selects.
LibraryInitSmallest ==
  (backend = "Library" /\ Returned("init")) =>
     /\ calls = LibInitCalls
     /\ lib.bitOrder = "MSBFIRST" /\ lib.dataMode = "SPI_MODE0"
     /\ lib.clockDiv \in Supported /\ lib.clockDiv >= divisor
     /\ \A q \in Supported : q >= divisor => lib.clockDiv <= q
     /\ lib.clockDiv = RegisterDivisor(divisor)

\* C17 amended: the divider is the smallest of 2, 4, ..., 128 that is >= d
\* for d <= 128 and is 128 for d > 128; for every d it is the divisor the
\* register init(d) selects (and the registers that init(d) writes do select
\* that divisor).
LibraryInitSmallestUpTo128 ==
  /\ (backend = "Library" /\ Returned("init")) =>
       /\ calls = LibInitCalls
       /\ lib.bitOrder = "MSBFIRST" /\ lib.dataMode = "SPI_MODE0"
       /\ lib.clockDiv \in Supported
       /\ IF divisor <= 128
            THEN /\ lib.clockDiv >= divisor
                 /\ \A q \in Supported : q >= divisor => lib.clockDiv <= q
            ELSE lib.clockDiv = 128
       /\ lib.clockDiv = RegisterDivisor(divisor)
  /\ (backend = "Register" /\ Returned("init")) =>
       Divisor(SPCR, SPSR) = RegisterDivisor(divisor)

LibraryInitWitness ==
  /\ backend = "Library" /\ Returned("init") /\ divisor = 33
  /\ lib.clockDiv = 64 /\ calls = LibInitCalls

\* C18: receive(buf, n) writes, and send(buf, n) reads, buf[0], buf[1], ...
\* in that order, each once and none beyond buf[n-1]: all of them by the
\* time the call returns; past its n == 0 test, receive runs with n one
\* less than it was called with, never with a wrapped count.
BufferIndexBounds ==
  (backend = "Register" /\ op \in {"receiveN", "sendN"}) =>
     /\ Len(idx) <= len
     /\ \A k \in 1..Len(idx) : idx[k] = k - 1
     /\ pc = "idle" => Len(idx) = len
     /\ (op = "receiveN" /\ pc \notin {"idle", "rn_check"}) =>
           (len >= 1 /\ n = len - 1)
     /\ (op = "sendN" /\ pc \notin {"idle", "sn_check"}) =>
           (len >= 1 /\ n = len)

BufferIndexWitness ==
  /\ backend = "Register" /\ Returned("receiveN") /\ len = 3
  /\ idx = <<0, 1, 2>> /\ n = 2

\* the number of times b was doubled from 2
Doublings(bb) == CHOOSE k \in 0..8 : bb = Pow2(k + 1) \/ (k = 8 /\ bb = 0)

\* C19: in the loop of init, for every 8-bit d, b is one of 2, 4, ..., 128
\* and r at most 7; b is the divisor the current r encodes; each turn
\* doubles b without overflow and raises r, so the loop makes at most 6
\* turns.
InitLoopArithmetic ==
  /\ [](pc = "init_loop" =>
          /\ b \in Supported /\ r \in 0..7
          /\ b = Divisor(ClockSelect(r), DoubleBit(r))
          /\ Doublings(b) <= 6)
  /\ [][(pc = "init_loop" /\ r' # r) =>
         (b' = 2 * b /\ r' > r /\ Doublings(b') = Doublings(b) + 1)]_vars

\* init(255) at the head of the loop after the sixth turn
InitLoopWitness ==
  /\ pc = "init_loop" /\ divisor = 255 /\ b = 128 /\ r = 7
====
